---- MODULE Spec2Model ----
(***************************************************************************)
(* Model of src/app.py: the RFM dashboard script.  One upload of an order  *)
(* file runs the script top to bottom: RFM Calculation (groupby/agg),      *)
(* Percentile Scoring (pd.qcut), Segmentation (segment), KPI Section,      *)
(* Revenue by Segment and the threshold recommendations.                   *)
(*                                                                         *)
(* Abstractions.  Dates are whole days (integers), so Timedelta.days is a  *)
(* subtraction.  Order values are non-negative integers.  pd.qcut's bin    *)
(* edges are the linearly interpolated quantiles at k/5; they are kept     *)
(* exactly, scaled by NumBins, instead of as float64 (on integer columns   *)
(* the float edges round to the same side of every column value).  An      *)
(* exception that ends the script is the state pc = "error" with its       *)
(* Python type in error.  A float64 quotient is a record that keeps        *)
(* numerator and denominator, or is nan / inf as numpy makes it on a zero  *)
(* denominator.  The uploaded files are order logs in date order whose     *)
(* customers are numbered by first order; the required-column check of     *)
(* lines 17-28 always passes on them.  The monthly trend chart (lines      *)
(* 119-126) reads df only and is left out.                                 *)
(*                                                                         *)
(* Three specifications: Spec is the whole script on an uploaded file;     *)
(* SpecSegment applies segment to every score triple; SpecScorer applies   *)
(* the three scoring statements to one metric column of a customer table.  *)
(***************************************************************************)
EXTENDS Integers, Sequences, FiniteSets

VARIABLES
  pc, df, snapshot_date, rfm, error,
  total_customers, total_revenue, champion_revenue, at_risk_revenue,
  seg_revenue, revenue_dependency, high_dependency, high_risk,
  row, label,
  metric, column, score, qstage

vars == <<pc, df, snapshot_date, rfm, error,
          total_customers, total_revenue, champion_revenue, at_risk_revenue,
          seg_revenue, revenue_dependency, high_dependency, high_risk,
          row, label, metric, column, score, qstage>>

pipelineVars == <<pc, df, snapshot_date, rfm, error,
          total_customers, total_revenue, champion_revenue, at_risk_revenue,
          seg_revenue, revenue_dependency, high_dependency, high_risk>>

segmentVars == <<row, label>>

scorerVars == <<metric, column, score, qstage>>

(***************************************************************************)
(* Bounds of the model and constants of the program.                       *)
(***************************************************************************)
MaxOrders == 3
MaxDay == 2
MaxValue == 1
MaxPopR == 5
MaxRecency == 4
MaxPop == 8
MaxFrequency == 2
MaxMonetary == 1

NumBins == 5

Segments == {"Champion", "Loyal", "Fence Sitter", "At Risk", "Churned"}

\* Variant: Recency labelled like the other two metrics, not inverted.
AscendingLabels == <<1, 2, 3, 4, 5>>

RecencyLabels == <<5, 4, 3, 2, 1>>

ValueLabels == <<1, 2, 3, 4, 5>>

(***************************************************************************)
(* Helpers on sequences of integers.                                       *)
(***************************************************************************)
RECURSIVE SumSeq(_)
SumSeq(s) == IF s = <<>> THEN 0 ELSE s[1] + SumSeq(Tail(s))

MaxOf(S) == CHOOSE m \in S : \A v \in S : v <= m

\* v put into the ascending sequence s.
RECURSIVE Insert(_, _)
Insert(s, v) ==
  IF s = <<>> THEN <<v>>
  ELSE IF v <= s[1] THEN <<v>> \o s
  ELSE <<s[1]>> \o Insert(Tail(s), v)

\* s in ascending order.
RECURSIVE SortSeq(_)
SortSeq(s) == IF s = <<>> THEN <<>> ELSE Insert(SortSeq(Tail(s)), s[1])

\* One column of a table, as a sequence in row order.
RECURSIVE Col(_, _)
Col(t, name) ==
  IF t = <<>> THEN <<>> ELSE <<t[1][name]>> \o Col(Tail(t), name)

(***************************************************************************)
(* Percentile Scoring: pd.qcut(x, 5, labels) and Series.rank("first").     *)
(***************************************************************************)
\* quantile(k/5) with linear interpolation, times NumBins: the position
\* k*(n-1)/5 in the sorted column, split into its whole and fractional part.
\* sorted is the column in ascending order; its positions count from 0 in
\* pandas and from 1 here.
Quantile(sorted, k) ==
  LET n    == Len(sorted)
      pos  == k * (n - 1)
      lo   == pos \div NumBins
      frac == pos % NumBins
      hi   == IF lo + 1 <= n - 1 THEN lo + 1 ELSE n - 1
  IN  NumBins * sorted[lo + 1] + frac * (sorted[hi + 1] - sorted[lo + 1])

RECURSIVE EdgesUpTo(_, _)
EdgesUpTo(sorted, k) ==
  IF k < 0 THEN <<>>
  ELSE Append(EdgesUpTo(sorted, k - 1), Quantile(sorted, k))

\* The NumBins + 1 bin edges x.quantile(linspace(0, 1, 6)); edge k of pandas
\* (k from 0) is element k + 1 of the sequence.
BinEdges(x) == EdgesUpTo(SortSeq(x), NumBins)

\* duplicates="raise": equal edges raise ValueError("Bin edges must be unique").
EdgesUnique(bins) == Cardinality({bins[k] : k \in DOMAIN bins}) = NumBins + 1

\* bins.searchsorted(v, side="left"): the number of edges strictly below v.
SearchSortedLeft(bins, v) == Cardinality({k \in DOMAIN bins : bins[k] < v})

\* include_lowest=True: a value equal to the lowest edge goes to bin 1.
BinId(bins, v) ==
  IF NumBins * v = bins[1] THEN 1 ELSE SearchSortedLeft(bins, NumBins * v)

\* The labelled column; 0 stands for NaN (an id of 0 or NumBins + 1).
qcut(x, labels) ==
  LET bins == BinEdges(x)
  IN  [i \in DOMAIN x |->
         LET id == BinId(bins, x[i])
         IN  IF id \in 1..NumBins THEN labels[id] ELSE 0]

\* pd.qcut(...).astype(int) raises: duplicate edges, or a NaN to convert.
QcutRaises(x, labels) ==
  \/ ~EdgesUnique(BinEdges(x))
  \/ LET codes == qcut(x, labels)
     IN  \E i \in DOMAIN x : codes[i] = 0

\* Variant: rank(method="min"), tied rows share their lowest rank.
RankOfMin(x, i) == 1 + Cardinality({j \in DOMAIN x : x[j] < x[i]})

\* The rank of row i under rank(method="first"): ties get ranks in the order
\* they appear.
RankOf(x, i) ==
  1 + Cardinality({j \in DOMAIN x : x[j] < x[i]})
    + Cardinality({j \in DOMAIN x : j < i /\ x[j] = x[i]})

RECURSIVE RanksUpTo(_, _)
RanksUpTo(x, n) ==
  IF n = 0 THEN <<>> ELSE Append(RanksUpTo(x, n - 1), RankOf(x, n))

RankFirst(x) == RanksUpTo(x, Len(x))

R_Raises(recency) == QcutRaises(recency, RecencyLabels)

R_Score(recency) == qcut(recency, RecencyLabels)

F_Raises(frequency) == QcutRaises(RankFirst(frequency), ValueLabels)

F_Score(frequency) == qcut(RankFirst(frequency), ValueLabels)

M_Raises(monetary) == QcutRaises(RankFirst(monetary), ValueLabels)

M_Score(monetary) == qcut(RankFirst(monetary), ValueLabels)

(***************************************************************************)
(* Segmentation.                                                           *)
(***************************************************************************)
\* Variant: the Loyal rule without its R_Score >= 3 test.
segmentLoyalAnyRecency(r) ==
  IF r.R_Score >= 4 /\ r.F_Score >= 4 /\ r.M_Score >= 4 THEN "Champion"
  ELSE IF r.F_Score >= 4 THEN "Loyal"
  ELSE IF r.R_Score >= 3 THEN "Fence Sitter"
  ELSE IF r.R_Score = 2 THEN "At Risk"
  ELSE "Churned"

segment(r) ==
  IF r.R_Score >= 4 /\ r.F_Score >= 4 /\ r.M_Score >= 4 THEN "Champion"
  ELSE IF r.F_Score >= 4 /\ r.R_Score >= 3 THEN "Loyal"
  ELSE IF r.R_Score >= 3 THEN "Fence Sitter"
  ELSE IF r.R_Score = 2 THEN "At Risk"
  ELSE "Churned"

(***************************************************************************)
(* RFM Calculation: df.groupby("user_id").agg(...).reset_index().          *)
(***************************************************************************)
UserIds(orders) == {orders[i].user_id : i \in DOMAIN orders}

\* The rows of one group, in file order.
Group(orders, u) == SelectSeq(orders, LAMBDA o : o.user_id = u)

\* groupby sorts its keys: the k-th key, k from 1.
GroupKey(orders, k) ==
  CHOOSE u \in UserIds(orders) :
    Cardinality({w \in UserIds(orders) : w < u}) = k - 1

Recency(g, snapshot) ==
  snapshot - MaxOf({g[i].order_date : i \in DOMAIN g})

Frequency(g) == Len(g)

Monetary(g) == SumSeq(Col(g, "order_value"))

\* Variant: no grouping, one row per order row.
RFMTablePerOrder(orders, snapshot) ==
  [k \in DOMAIN orders |->
     [user_id   |-> orders[k].user_id,
      Recency   |-> snapshot - orders[k].order_date,
      Frequency |-> 1,
      Monetary  |-> orders[k].order_value]]

RFMTable(orders, snapshot) ==
  [k \in 1..Cardinality(UserIds(orders)) |->
     LET u == GroupKey(orders, k)
         g == Group(orders, u)
     IN  [user_id   |-> u,
          Recency   |-> Recency(g, snapshot),
          Frequency |-> Frequency(g),
          Monetary  |-> Monetary(g)]]

(***************************************************************************)
(* KPI Section, Revenue by Segment, recommendations.                       *)
(***************************************************************************)
\* rfm[rfm["Segment"] in S]["Monetary"].sum()
MonetaryOf(t, S) ==
  SumSeq(Col(SelectSeq(t, LAMBDA r : r.Segment \in S), "Monetary"))

\* Variant: the Churned customers left out of the revenue at risk.
OnlyAtRisk == {"At Risk"}

AtRiskSegments == {"At Risk", "Churned"}

\* rfm.groupby("Segment")["Monetary"].sum(): only the segments that occur.
SegRevenue(t) ==
  [s \in {t[i].Segment : i \in DOMAIN t} |-> MonetaryOf(t, {s})]

\* numpy's a / b on 64-bit scalars: nan or inf on b = 0, never an exception.
Divide(a, b) ==
  IF b = 0
  THEN [kind |-> IF a = 0 THEN "nan" ELSE "inf", num |-> a, den |-> b]
  ELSE [kind |-> "num", num |-> a, den |-> b]

\* q > 0.50 for a quotient of non-negative numbers; nan > 0.50 is False.
HighDependency(q) ==
  IF q.kind = "nan" THEN FALSE
  ELSE IF q.kind = "inf" THEN TRUE
  ELSE 2 * q.num > q.den

\* Variant: the ratio at_risk / champion compared with 0.5 behind a guard
\* against a zero denominator.
HighRiskByRatio(at_risk, champion) ==
  champion # 0 /\ 2 * at_risk > champion

\* at_risk > champion * 0.5, with the product kept as champion / 2.
HighRisk(at_risk, champion) == 2 * at_risk > champion

(***************************************************************************)
(* The script, one action per section.                                     *)
(***************************************************************************)
\* The columns the script reads; product_name and discount_given are read by
\* nothing, and order_id is only counted.
Orders ==
  [user_id : 1..MaxOrders, order_date : 0..MaxDay, order_value : 0..MaxValue]

\* The rows that may follow the rows s of an order log: the log is in date
\* order, and a customer's id is the number of customers seen up to their
\* first order.
NextOrders(s) ==
  {o \in Orders :
     /\ o.user_id <= Cardinality(UserIds(s)) + 1
     /\ s # <<>> => o.order_date >= s[Len(s)].order_date}


NoKpi ==
  /\ total_customers = 0
  /\ total_revenue = 0
  /\ champion_revenue = 0
  /\ at_risk_revenue = 0
  /\ seg_revenue = <<>>
  /\ revenue_dependency = Divide(0, 1)
  /\ high_dependency = FALSE
  /\ high_risk = FALSE

PipelineIdle ==
  /\ pc = "idle"
  /\ df = <<>>
  /\ snapshot_date = 0
  /\ rfm = <<>>
  /\ error = "none"
  /\ NoKpi

SegmentIdle == row = [R_Score |-> 1, F_Score |-> 1, M_Score |-> 1] /\ label = "idle"

ScorerIdle == metric = "none" /\ column = <<>> /\ score = <<>> /\ qstage = "idle"

\* No file is uploaded yet (line 13).
Init ==
  /\ pc = "upload"
  /\ df = <<>>
  /\ snapshot_date = 0
  /\ rfm = <<>>
  /\ error = "none"
  /\ NoKpi
  /\ SegmentIdle
  /\ ScorerIdle

\* Line 15: one more row of the uploaded file, up to MaxOrders rows.
ReadRow ==
  /\ pc = "upload"
  /\ Len(df) < MaxOrders
  /\ \E o \in NextOrders(df) : df' = Append(df, o)
  /\ UNCHANGED <<pc, snapshot_date, rfm, error, total_customers,
                 total_revenue, champion_revenue, at_risk_revenue, seg_revenue,
                 revenue_dependency, high_dependency, high_risk>>
  /\ UNCHANGED <<segmentVars, scorerVars>>

\* Lines 35-40: the analysis date; any day may be picked, before the last
\* order too.
SelectDate ==
  /\ pc = "upload"
  /\ df # <<>>
  /\ \E d \in 0..MaxDay : snapshot_date' = d
  /\ pc' = "uploaded"
  /\ UNCHANGED <<df, rfm, error, total_customers,
                 total_revenue, champion_revenue, at_risk_revenue, seg_revenue,
                 revenue_dependency, high_dependency, high_risk>>
  /\ UNCHANGED <<segmentVars, scorerVars>>

Aggregate ==
  /\ pc = "uploaded"
  /\ rfm' = RFMTable(df, snapshot_date)
  /\ pc' = "rfm"
  /\ UNCHANGED <<df, snapshot_date, error, total_customers, total_revenue,
                 champion_revenue, at_risk_revenue, seg_revenue,
                 revenue_dependency, high_dependency, high_risk>>
  /\ UNCHANGED <<segmentVars, scorerVars>>

\* Lines 56-72: the three qcut calls in order; the first that raises ends the
\* script and leaves rfm as it was.
Score ==
  /\ pc = "rfm"
  /\ IF \/ R_Raises(Col(rfm, "Recency"))
        \/ F_Raises(Col(rfm, "Frequency"))
        \/ M_Raises(Col(rfm, "Monetary"))
     THEN /\ pc' = "error"
          /\ error' = "ValueError"
          /\ rfm' = rfm
     ELSE /\ pc' = "scored"
          /\ error' = error
          /\ LET r == R_Score(Col(rfm, "Recency"))
                 f == F_Score(Col(rfm, "Frequency"))
                 m == M_Score(Col(rfm, "Monetary"))
             IN  rfm' = [i \in DOMAIN rfm |->
                   [user_id   |-> rfm[i].user_id,
                    Recency   |-> rfm[i].Recency,
                    Frequency |-> rfm[i].Frequency,
                    Monetary  |-> rfm[i].Monetary,
                    R_Score   |-> r[i],
                    F_Score   |-> f[i],
                    M_Score   |-> m[i]]]
  /\ UNCHANGED <<df, snapshot_date, total_customers, total_revenue,
                 champion_revenue, at_risk_revenue, seg_revenue,
                 revenue_dependency, high_dependency, high_risk>>
  /\ UNCHANGED <<segmentVars, scorerVars>>

\* Line 89: rfm["Segment"] = rfm.apply(segment, axis=1).
Segmentation ==
  /\ pc = "scored"
  /\ rfm' = [i \in DOMAIN rfm |->
       [user_id   |-> rfm[i].user_id,
        Recency   |-> rfm[i].Recency,
        Frequency |-> rfm[i].Frequency,
        Monetary  |-> rfm[i].Monetary,
        R_Score   |-> rfm[i].R_Score,
        F_Score   |-> rfm[i].F_Score,
        M_Score   |-> rfm[i].M_Score,
        Segment   |-> segment(rfm[i])]]
  /\ pc' = "segmented"
  /\ UNCHANGED <<df, snapshot_date, error, total_customers, total_revenue,
                 champion_revenue, at_risk_revenue, seg_revenue,
                 revenue_dependency, high_dependency, high_risk>>
  /\ UNCHANGED <<segmentVars, scorerVars>>

\* Lines 94-110: the KPI Section and Revenue by Segment.
KPI ==
  /\ pc = "segmented"
  /\ total_customers' = Len(rfm)
  /\ total_revenue' = SumSeq(Col(rfm, "Monetary"))
  /\ champion_revenue' = MonetaryOf(rfm, {"Champion"})
  /\ at_risk_revenue' = MonetaryOf(rfm, AtRiskSegments)
  /\ seg_revenue' = SegRevenue(rfm)
  /\ pc' = "kpi"
  /\ UNCHANGED <<df, snapshot_date, rfm, error,
                 revenue_dependency, high_dependency, high_risk>>
  /\ UNCHANGED <<segmentVars, scorerVars>>

\* Lines 133-143: the ratio and the two threshold messages.
Recommend ==
  /\ pc = "kpi"
  /\ revenue_dependency' = Divide(champion_revenue, total_revenue)
  /\ high_dependency' = HighDependency(Divide(champion_revenue, total_revenue))
  /\ high_risk' = HighRisk(at_risk_revenue, champion_revenue)
  /\ pc' = "done"
  /\ UNCHANGED <<df, snapshot_date, rfm, error, total_customers, total_revenue,
                 champion_revenue, at_risk_revenue, seg_revenue>>
  /\ UNCHANGED <<segmentVars, scorerVars>>

Next ==
  \/ ReadRow
  \/ SelectDate
  \/ Aggregate
  \/ Score
  \/ Segmentation
  \/ KPI
  \/ Recommend

Spec == Init /\ [][Next]_vars

(***************************************************************************)
(* The segment classifier alone, on every score triple.                    *)
(***************************************************************************)
ScoreRows == [R_Score : 1..NumBins, F_Score : 1..NumBins, M_Score : 1..NumBins]

InitSegment ==
  /\ row \in ScoreRows
  /\ label = "pending"
  /\ PipelineIdle
  /\ ScorerIdle

Classify ==
  /\ label = "pending"
  /\ label' = segment(row)
  /\ UNCHANGED <<row, pipelineVars, scorerVars>>

NextSegment == Classify

SpecSegment == InitSegment /\ [][NextSegment]_vars

(***************************************************************************)
(* The quantile scorer alone, on one metric column of the customer table.  *)
(***************************************************************************)
\* A customer table of 1..MaxPopR (Recency) or 1..MaxPop rows, one column
\* of it: days since the last order, the order count, the order value sum.
InitScorer ==
  /\ \/ /\ metric = "Recency"
        /\ \E n \in 1..MaxPopR : column \in [1..n -> 0..MaxRecency]
     \/ /\ metric = "Frequency"
        /\ \E n \in 1..MaxPop : column \in [1..n -> 1..MaxFrequency]
     \/ /\ metric = "Monetary"
        /\ \E n \in 1..MaxPop : column \in [1..n -> 0..MaxMonetary]
  /\ score = <<>>
  /\ qstage = "ready"
  /\ PipelineIdle
  /\ SegmentIdle

ScoreRecency ==
  /\ qstage = "ready"
  /\ metric = "Recency"
  /\ IF R_Raises(column)
     THEN qstage' = "error" /\ score' = score
     ELSE qstage' = "scored" /\ score' = R_Score(column)
  /\ UNCHANGED <<metric, column, pipelineVars, segmentVars>>

ScoreFrequency ==
  /\ qstage = "ready"
  /\ metric = "Frequency"
  /\ IF F_Raises(column)
     THEN qstage' = "error" /\ score' = score
     ELSE qstage' = "scored" /\ score' = F_Score(column)
  /\ UNCHANGED <<metric, column, pipelineVars, segmentVars>>

ScoreMonetary ==
  /\ qstage = "ready"
  /\ metric = "Monetary"
  /\ IF M_Raises(column)
     THEN qstage' = "error" /\ score' = score
     ELSE qstage' = "scored" /\ score' = M_Score(column)
  /\ UNCHANGED <<metric, column, pipelineVars, segmentVars>>

NextScorer ==
  \/ ScoreRecency
  \/ ScoreFrequency
  \/ ScoreMonetary

SpecScorer == InitScorer /\ [][NextScorer]_vars

(***************************************************************************)
(* Properties.                                                             *)
(***************************************************************************)
\* The analysis date is not before any order of the file.
ValidSnapshot == \A i \in DOMAIN df : df[i].order_date <= snapshot_date

Classified == pc \in {"segmented", "kpi", "done"}

\* seg_revenue's sum for segment s, 0 for a segment no customer is in.
SegmentRevenue(s) == IF s \in DOMAIN seg_revenue THEN seg_revenue[s] ELSE 0

BucketSize(v) == Cardinality({i \in DOMAIN score : score[i] = v})

\* C1: on every score triple in {1..5}^3 the classifier returns one of the
\* five segments, the one the first matching rule names: Champion exactly on
\* R>=4, F>=4, M>=4; Loyal exactly on F>=4, R>=3 outside Champion; Fence
\* Sitter exactly on R>=3 with F<4; At Risk exactly on R=2; Churned exactly
\* on R=1.  A triple with F>=4 and R<=2 is neither Loyal nor Champion.
C1_SegmentFirstMatch ==
  label \notin {"pending", "idle"} =>
    LET R == row.R_Score
        F == row.F_Score
        M == row.M_Score
    IN  /\ label \in Segments
        /\ label = "Champion" <=> (R >= 4 /\ F >= 4 /\ M >= 4)
        /\ label = "Loyal" <=> (F >= 4 /\ R >= 3 /\ ~(R >= 4 /\ M >= 4))
        /\ label = "Fence Sitter" <=> (R >= 3 /\ F < 4)
        /\ label = "At Risk" <=> R = 2
        /\ label = "Churned" <=> R = 1
        /\ (F >= 4 /\ R <= 2) => label \notin {"Loyal", "Champion"}

C1_Witness ==
  label = "Churned" /\ row.F_Score >= 4 /\ row.M_Score >= 4 /\ row.R_Score = 1

\* C2: once the customer table exists, every customer id of the order rows
\* is the user_id of exactly one of its rows and no other id occurs in it;
\* after Segmentation every row carries one of the five segments.
C2_OneRowPerCustomer ==
  pc \notin {"idle", "upload", "uploaded"} =>
    /\ \A u \in UserIds(df) :
         Cardinality({i \in DOMAIN rfm : rfm[i].user_id = u}) = 1
    /\ \A i \in DOMAIN rfm : rfm[i].user_id \in UserIds(df)
    /\ Classified => \A i \in DOMAIN rfm : rfm[i].Segment \in Segments

C2_Witness ==
  /\ pc = "done"
  /\ \A i \in DOMAIN rfm : rfm[i].Recency >= 0
  /\ Len(rfm) >= 2
  /\ \E i \in DOMAIN rfm : rfm[i].Frequency >= 2

\* C3: a Frequency or Monetary column of at least 5 customers is always
\* scored (no error), every score is in 1..5, each of the five scores is
\* given to some customer, the five bucket sizes differ by at most 1, and a
\* customer with a smaller value, or with an equal value and an earlier row,
\* never gets a higher score.
C3_RankedQuintiles ==
  (metric \in {"Frequency", "Monetary"} /\ Len(column) >= NumBins
     /\ qstage # "ready") =>
    /\ qstage = "scored"
    /\ DOMAIN score = DOMAIN column
    /\ \A i \in DOMAIN score : score[i] \in 1..NumBins
    /\ \A v \in 1..NumBins : BucketSize(v) >= 1
    /\ \A v, w \in 1..NumBins : BucketSize(v) - BucketSize(w) <= 1
    /\ \A i, j \in DOMAIN column :
         (column[i] < column[j] \/ (column[i] = column[j] /\ i < j))
           => score[i] <= score[j]

C3_Witness ==
  /\ metric = "Frequency"
  /\ qstage = "scored"
  /\ Len(column) = 7
  /\ \A i \in DOMAIN column : column[i] = column[1]

\* C4: whenever a Recency column is scored, every customer with the smallest
\* Recency has R_Score 5 and every customer with the largest has R_Score 1.
C4_RecencyInverted ==
  (metric = "Recency" /\ qstage = "scored") =>
    \A i \in DOMAIN column :
      /\ (\A j \in DOMAIN column : column[i] <= column[j]) => score[i] = 5
      /\ (\A j \in DOMAIN column : column[i] >= column[j]) => score[i] = 1

C4_Witness ==
  /\ metric = "Recency"
  /\ qstage = "scored"
  /\ Len(column) = NumBins
  /\ \E i, j \in DOMAIN column : i # j /\ column[i] = column[j]

C6_SmallPopulationFails ==
  (/\ ValidSnapshot
   /\ Cardinality(UserIds(df)) < NumBins
   /\ pc \notin {"idle", "upload", "uploaded", "rfm"})
    => (pc = "error" /\ total_customers = 0)

\* C7: a snapshot date before a customer's latest order is rejected: no row
\* of the customer table ever has a negative Recency.
C7_NoNegativeRecency ==
  pc \notin {"idle", "upload", "uploaded"} =>
    \A i \in DOMAIN rfm : rfm[i].Recency >= 0

\* C8: whenever a Recency column of at least 5 customers is scored, each of
\* the R_Score values 1..5 is held by at least one customer (a column too
\* tied for that ends in an error).
C8_RecencyFiveBuckets ==
  (metric = "Recency" /\ qstage = "scored" /\ Len(column) >= NumBins) =>
    \A v \in 1..NumBins : BucketSize(v) >= 1

\* C9: when total_revenue is 0 (on a valid analysis date) the script does
\* not run past the computation of revenue_dependency: it ends in a
\* division-by-zero error and no advisory flag is evaluated on the quotient.
C9_ZeroRevenueRaises ==
  (ValidSnapshot /\ total_customers > 0 /\ total_revenue = 0 /\ pc # "kpi") =>
    (pc = "error" /\ error = "ZeroDivisionError")

\* C10: in every completed run the high-risk flag is raised exactly when
\* at_risk_revenue > 0.5 * champion_revenue, so it is raised whenever
\* champion_revenue = 0 and at_risk_revenue > 0; and with total_revenue > 0
\* the high-dependency flag is raised exactly when champion_revenue is
\* strictly more than half of total_revenue.
C10_AdvisoryFlags ==
  pc = "done" =>
    /\ high_risk <=> 2 * at_risk_revenue > champion_revenue
    /\ (champion_revenue = 0 /\ at_risk_revenue > 0) => high_risk
    /\ total_revenue > 0 =>
         (high_dependency <=> 2 * champion_revenue > total_revenue)

C10_Witness ==
  /\ pc = "done"
  /\ \A i \in DOMAIN rfm : rfm[i].Recency >= 0
  /\ champion_revenue = 0
  /\ at_risk_revenue > 0
  /\ high_risk

====
